---- MODULE Spec2Model ----
(***************************************************************************)
(* MiniStore backend (src/app.py): a Flask application over one SQLite     *)
(* file.  Every request handler opens its own connection (get_db), so the  *)
(* handlers of concurrent requests interleave statement by statement.      *)
(*                                                                         *)
(* SQLite, as the handlers use it through Python's sqlite3 module:         *)
(*   - a SELECT outside a transaction reads the committed store;           *)
(*   - the first INSERT/UPDATE/DELETE of a connection opens a transaction  *)
(*     and takes the store's single write lock; another connection's       *)
(*     write waits for the lock and raises "database is locked" when the   *)
(*     wait times out;                                                     *)
(*   - the writes of an open transaction are seen by that connection only  *)
(*     until commit() publishes them; rollback() or closing the connection *)
(*     discards them.                                                      *)
(***************************************************************************)
EXTENDS Integers, Sequences, FiniteSets, TLC

VARIABLES
    db,      \* the committed store (database.db)
    lock,    \* the connection holding the write lock, or NoThread
    conn,    \* conn[t]: the uncommitted working copy of t's connection, or NoTx
    pc,      \* pc[t]: where request thread t stands in its handler
    req,     \* req[t]: the request thread t is handling (or handled last)
    resp,    \* resp[t]: the response of t's last finished request
    item,    \* item[t]: index of the line item (or product) the loop is at
    exc,     \* exc[t]: the exception raised in t's handler and not yet handled
    clock    \* the server clock, in days

vars == <<db, lock, conn, pc, req, resp, item, exc, clock>>

----------------------------------------------------------------------------
\* Bounds of the model

\* longest item list of a sale request and longest product list of a replace
MaxItems == 2
\* largest quantity a line item asks for
MaxQty == 1
\* largest stock a product replace sets
MaxStock == 2
\* number of days the server clock can advance
MaxDay == 1

Threads == {"t1", "t2"}
NoThread == "none"
Names == {"bia", "coca"}
SaleIds == {"s1", "s2"}
\* a JSON null / absent key (data.get returns None)
None == "None"
Prices == {10}
PositiveTotals == {30}

\* src/app.py:23
APP_PIN == "1234"
Pins == {APP_PIN, "0000"}

----------------------------------------------------------------------------
\* The store

NoTx == [open |-> FALSE]

\* a database file that does not exist yet
EmptyStore ==
    [tables    |-> {},
     meta      |-> [k \in {} |-> ""],
     salesCols |-> {},
     salesKey  |-> {},
     products  |-> <<>>,
     sales     |-> <<>>]

\* init_db had it dropped and recreated the tables instead of IF NOT EXISTS
init_db_recreate(s) ==
    [EmptyStore EXCEPT !.tables    = {"meta", "products", "sales"},
                       !.meta      = [k \in {"schema_version"} |-> "2"],
                       !.salesCols = {"sale_id", "date", "total"},
                       !.salesKey  = {"sale_id"}]

\* init_db: every statement is IF NOT EXISTS / OR IGNORE
init_db(s) ==
    LET meta1    == IF "schema_version" \in DOMAIN s.meta
                    THEN s.meta
                    ELSE [k \in DOMAIN s.meta \cup {"schema_version"} |->
                            IF k = "schema_version" THEN "2" ELSE s.meta[k]]
        hasSales == "sales" \in s.tables
    IN  [s EXCEPT !.tables    = @ \cup {"meta", "products", "sales"},
                  !.meta      = meta1,
                  !.salesCols = IF hasSales THEN @ ELSE {"sale_id", "date", "total"},
                  !.salesKey  = IF hasSales THEN @ ELSE {"sale_id"}]

\* int(row["value"]) for the version strings the code writes
ParseInt(v) == CASE v = "1" -> 1 [] v = "2" -> 2 [] v = "3" -> 3 [] OTHER -> 0

\* migrate_db had it migrated every store not at version 2
migrate_db_not_current(s) ==
    LET s1 == [s EXCEPT !.tables = @ \cup {"meta"}]
        current_version == IF "schema_version" \in DOMAIN s1.meta
                           THEN ParseInt(s1.meta["schema_version"])
                           ELSE 1
    IN  IF current_version # 2 /\ "sales" \in s1.tables
        THEN [s1 EXCEPT
                !.salesCols = @ \cup {"sale_id"},
                !.meta = [k \in DOMAIN s1.meta |->
                            IF k = "schema_version" THEN "2" ELSE s1.meta[k]]]
        ELSE s1

\* migrate_db.  The UPDATE of line 101 changes the marker only where there is
\* one.  Without a sales table the ALTER TABLE of line 99 raises and the run
\* ends there, the meta table created (CREATE TABLE is not part of a
\* transaction).
migrate_db(s) ==
    LET s1 == [s EXCEPT !.tables = @ \cup {"meta"}]
        current_version == IF "schema_version" \in DOMAIN s1.meta
                           THEN ParseInt(s1.meta["schema_version"])
                           ELSE 1
    IN  IF current_version < 2 /\ "sales" \in s1.tables
        THEN [s1 EXCEPT
                !.salesCols = @ \cup {"sale_id"},
                !.meta = [k \in DOMAIN s1.meta |->
                            IF k = "schema_version" THEN "2" ELSE s1.meta[k]]]
        ELSE s1

\* the handlers had they shared one connection: a thread reads what another
\* thread's open transaction has written
ViewShared(t) ==
    IF conn[t].open THEN conn[t].store
    ELSE IF \E u \in Threads : conn[u].open
    THEN conn[CHOOSE u \in Threads : conn[u].open].store
    ELSE db

\* what thread t's connection reads: its own open transaction, else the store
View(t) == IF conn[t].open THEN conn[t].store ELSE db

\* require_pin
require_pin(r) == r.pin = APP_PIN

\* datetime.now().strftime("%Y-%m-%d") on day d of the model's calendar
Digit(n) == CASE n = 0 -> "0" [] n = 1 -> "1" [] n = 2 -> "2" [] n = 3 -> "3"
              [] n = 4 -> "4" [] n = 5 -> "5" [] n = 6 -> "6" [] n = 7 -> "7"
              [] n = 8 -> "8" [] n = 9 -> "9"
Pad2(n) == <<Digit(n \div 10), Digit(n % 10)>>
Pad4(n) == <<Digit(n \div 1000), Digit((n \div 100) % 10)>> \o Pad2(n % 100)
\* the calendar day the clock shows: 2024-05-30, 2024-05-31, 2024-06-01, ...
Calendar(d) == IF d <= 1 THEN <<2024, 5, 30 + d>> ELSE <<2024, 6, d - 1>>
Strftime(d) ==
    Pad4(Calendar(d)[1]) \o <<"-">> \o Pad2(Calendar(d)[2]) \o <<"-">> \o Pad2(Calendar(d)[3])

----------------------------------------------------------------------------
\* Requests and responses

NoReq == [route |-> "none", pin |-> "", data |-> <<>>]
NoResp == [status |-> 0, body |-> "none", detail |-> <<>>]

\* jsonify({"saved": True}) and the like; detail carries the error text or rows
Json(status, body, detail) == [status |-> status, body |-> body, detail |-> detail]

\* item lists of at most n line items
ItemLists(n) == UNION {[1..k -> [name : Names, qty : 1..MaxQty]] : k \in 0..n}
\* POST /api/sales payloads
SaleRequests(n) ==
    {[route |-> "sales", pin |-> p,
      data |-> [sale_id |-> s, total |-> tot, items |-> its]] :
        p \in Pins, s \in SaleIds \cup {None, ""},
        tot \in PositiveTotals \cup {0, -1}, its \in ItemLists(n)}
\* POST /api/products payloads: the new product list
ProductLists(n) ==
    UNION {[1..k -> [name : Names, price : Prices, qty : 0..MaxStock]] : k \in 0..n}
ProductRequests(n) ==
    {[route |-> "products_post", pin |-> p, data |-> l] : p \in Pins, l \in ProductLists(n)}
        \cup {[route |-> "products_get", pin |-> p, data |-> <<>>] : p \in Pins}

Idle(t) == pc[t] = "idle"

\* the handler of thread t returns response r
Return(t, r) ==
    /\ pc' = [pc EXCEPT ![t] = "done"]
    /\ resp' = [resp EXCEPT ![t] = r]

\* the rows of products named name, in rowid order ("... WHERE name = ?")
ProductRows(s, name) == SelectSeq(s.products, LAMBDA row : row.name = name)

\* the lookup had it compared the sale_id with the first row only
SaleExistsFirstRow(s, sale_id) == Len(s.sales) > 0 /\ s.sales[1].sale_id = sale_id

\* "SELECT 1 FROM sales WHERE sale_id = ?"
SaleExists(s, sale_id) == \E k \in 1..Len(s.sales) : s.sales[k].sale_id = sale_id

----------------------------------------------------------------------------
\* POST /api/sales (save_sale)

\* the check had it been "sale_id is None"
MissingSaleIdNoneOnly(data) == data.sale_id = None

\* line 178: "not sale_id" holds of a missing (None) and of an empty sale_id
MissingSaleId(data) == data.sale_id \in {None, ""}

\* the check had it been "not items" alone
VoidNoItemsOnly(data) == data.items = <<>>

\* line 181: a sale without a positive total or without items
Void(data) == data.total <= 0 \/ data.items = <<>>

\* the two checks had they been made in the other order
PrecheckVoidFirst(data) ==
    IF Void(data) THEN "ignored"
    ELSE IF MissingSaleId(data) THEN "sale_id required"
    ELSE "accepted"

\* lines 178-182: what save_sale decides before it opens the store
Precheck(data) ==
    IF MissingSaleId(data) THEN "sale_id required"
    ELSE IF Void(data) THEN "ignored"
    ELSE "accepted"

\* lines 167-184: PIN, payload, sale_id and void-sale checks, get_db()
save_sale_begin(t, r) ==
    /\ Idle(t)
    /\ item' = [item EXCEPT ![t] = 1]
    /\ req' = [req EXCEPT ![t] = IF require_pin(r) THEN r ELSE [r EXCEPT !.data = <<>>]]
    /\ IF ~require_pin(r)
       THEN Return(t, Json(403, "error", <<"PIN required">>))
       ELSE IF Precheck(r.data) = "sale_id required"
       THEN Return(t, Json(400, "error", <<"sale_id required">>))
       ELSE IF Precheck(r.data) = "ignored"
       THEN Return(t, Json(200, "ignored", <<>>))
       ELSE /\ pc' = [pc EXCEPT ![t] = "duplicate_check"]
            /\ resp' = [resp EXCEPT ![t] = NoResp]
    /\ UNCHANGED <<db, lock, conn, exc, clock>>

\* lines 186-195: the duplicate check, a SELECT outside any transaction
save_sale_duplicate_check(t) ==
    /\ pc[t] = "duplicate_check"
    /\ IF "sale_id" \notin View(t).salesCols
       THEN Return(t, Json(500, "error", <<"no such column: sale_id">>))
       ELSE IF SaleExists(View(t), req[t].data.sale_id)
       THEN Return(t, Json(200, "duplicate", <<>>))
       ELSE /\ pc' = [pc EXCEPT ![t] = "check_stock"]
            /\ UNCHANGED resp
    /\ UNCHANGED <<db, lock, conn, req, item, exc, clock>>

\* the check had it looked for the product only
CheckItemFoundOnly(s, it) ==
    IF ProductRows(s, it.name) = <<>> THEN <<"Product not found: ", it.name>> ELSE <<>>

\* lines 200-210: the check of one line item against store s; the exception
\* it raises, <<>> when it passes
CheckItem(s, it) ==
    LET rows == ProductRows(s, it.name)
    IN  IF rows = <<>> THEN <<"Product not found: ", it.name>>
        ELSE IF rows[1].qty < it.qty THEN <<"Not enough stock for ", it.name>>
        ELSE <<>>

\* the loop had it gone on after a failing item and raised the last failure
save_sale_check_stock_last(t) ==
    /\ pc[t] = "check_stock"
    /\ LET items  == req[t].data.items
           it     == items[item[t]]
           failed == IF CheckItem(View(t), it) # <<>> THEN CheckItem(View(t), it) ELSE exc[t]
       IN  /\ exc' = [exc EXCEPT ![t] = failed]
           /\ IF item[t] < Len(items)
              THEN /\ item' = [item EXCEPT ![t] = @ + 1]
                   /\ UNCHANGED pc
              ELSE IF failed # <<>>
              THEN /\ pc' = [pc EXCEPT ![t] = "except"]
                   /\ UNCHANGED item
              ELSE /\ item' = [item EXCEPT ![t] = 1]
                   /\ pc' = [pc EXCEPT ![t] = "apply_stock"]
    /\ UNCHANGED <<db, lock, conn, req, resp, clock>>

\* lines 199-210: one turn of the stock check loop, a SELECT per line item
save_sale_check_stock(t) ==
    /\ pc[t] = "check_stock"
    /\ LET items == req[t].data.items
           it    == items[item[t]]
       IN  IF CheckItem(View(t), it) # <<>>
           THEN /\ exc' = [exc EXCEPT ![t] = CheckItem(View(t), it)]
                /\ pc' = [pc EXCEPT ![t] = "except"]
                /\ UNCHANGED item
           ELSE IF item[t] < Len(items)
           THEN /\ item' = [item EXCEPT ![t] = @ + 1]
                /\ UNCHANGED <<pc, exc>>
           ELSE /\ item' = [item EXCEPT ![t] = 1]
                /\ pc' = [pc EXCEPT ![t] = "apply_stock"]
                /\ UNCHANGED exc
    /\ UNCHANGED <<db, lock, conn, req, resp, clock>>

\* the UPDATE had it lacked its WHERE clause
UpdateQtyNoWhere(s, name, qty) ==
    [s EXCEPT !.products =
        [k \in DOMAIN s.products |-> [s.products[k] EXCEPT !.qty = @ - qty]]]

\* "UPDATE products SET qty = qty - ? WHERE name = ?" on store s
UpdateQty(s, name, qty) ==
    [s EXCEPT !.products =
        [k \in DOMAIN s.products |->
            IF s.products[k].name = name
            THEN [s.products[k] EXCEPT !.qty = @ - qty]
            ELSE s.products[k]]]

\* the UPDATE had it not waited for the write lock: the transaction starts
\* on the committed store while another connection's transaction is open
save_sale_apply_stock_unlocked(t) ==
    /\ pc[t] = "apply_stock"
    /\ LET items == req[t].data.items
           it    == items[item[t]]
       IN  /\ conn' = [conn EXCEPT ![t] =
                         [open |-> TRUE, store |-> UpdateQty(View(t), it.name, it.qty)]]
           /\ lock' = t
           /\ IF item[t] < Len(items)
              THEN /\ item' = [item EXCEPT ![t] = @ + 1]
                   /\ UNCHANGED pc
              ELSE /\ item' = [item EXCEPT ![t] = 1]
                   /\ pc' = [pc EXCEPT ![t] = "insert"]
    /\ UNCHANGED <<db, req, resp, exc, clock>>

\* lines 214-218: one turn of the apply loop; the first UPDATE opens the
\* transaction on the committed store and takes the write lock
save_sale_apply_stock(t) ==
    /\ pc[t] = "apply_stock"
    /\ lock \in {NoThread, t}
    /\ LET items == req[t].data.items
           it    == items[item[t]]
       IN  /\ conn' = [conn EXCEPT ![t] =
                         [open |-> TRUE, store |-> UpdateQty(View(t), it.name, it.qty)]]
           /\ lock' = t
           /\ IF item[t] < Len(items)
              THEN /\ item' = [item EXCEPT ![t] = @ + 1]
                   /\ UNCHANGED pc
              ELSE /\ item' = [item EXCEPT ![t] = 1]
                   /\ pc' = [pc EXCEPT ![t] = "insert"]
    /\ UNCHANGED <<db, req, resp, exc, clock>>

\* a write that waits for another connection's lock until the busy timeout
\* raises sqlite3.OperationalError
WriteBusy(t) == lock \notin {NoThread, t}

save_sale_busy(t) ==
    /\ pc[t] = "apply_stock"
    /\ WriteBusy(t)
    /\ exc' = [exc EXCEPT ![t] = <<"database is locked">>]
    /\ pc' = [pc EXCEPT ![t] = "except"]
    /\ UNCHANGED <<db, lock, conn, req, resp, item, clock>>

\* the sales table had it no primary key
InsertNoKey(s, sale_id) == FALSE

\* "INSERT INTO sales (sale_id, date, total) VALUES (?, ?, ?)" on store s:
\* the primary key rejects a second row with the same sale_id
InsertViolatesKey(s, sale_id) == "sale_id" \in s.salesKey /\ SaleExists(s, sale_id)
InsertSale(s, sale_id, date, total) ==
    [s EXCEPT !.sales = Append(@, [sale_id |-> sale_id, date |-> date, total |-> total])]

\* lines 222-225
save_sale_insert(t) ==
    /\ pc[t] = "insert"
    /\ IF InsertViolatesKey(View(t), req[t].data.sale_id)
       THEN /\ exc' = [exc EXCEPT ![t] = <<"UNIQUE constraint failed: sales.sale_id">>]
            /\ pc' = [pc EXCEPT ![t] = "except"]
            /\ UNCHANGED conn
       ELSE /\ conn' = [conn EXCEPT ![t].store =
                          InsertSale(@, req[t].data.sale_id, Strftime(clock),
                                     req[t].data.total)]
            /\ pc' = [pc EXCEPT ![t] = "commit"]
            /\ UNCHANGED exc
    /\ UNCHANGED <<db, lock, req, resp, item, clock>>

\* db.commit(): the transaction's working copy becomes the committed store
Commit(t) ==
    /\ db' = View(t)
    /\ conn' = [conn EXCEPT ![t] = NoTx]
    /\ lock' = IF lock = t THEN NoThread ELSE lock

\* db.rollback(), or closing a connection with an open transaction
Rollback(t) ==
    /\ db' = db
    /\ conn' = [conn EXCEPT ![t] = NoTx]
    /\ lock' = IF lock = t THEN NoThread ELSE lock

\* lines 227-230, 237-238
save_sale_commit(t) ==
    /\ pc[t] = "commit"
    /\ Commit(t)
    /\ Return(t, Json(200, "saved", <<>>))
    /\ UNCHANGED <<req, item, exc, clock>>

\* lines 232-238
save_sale_except(t) ==
    /\ pc[t] = "except"
    /\ Rollback(t)
    /\ Return(t, Json(400, "error", exc[t]))
    /\ exc' = [exc EXCEPT ![t] = <<>>]
    /\ UNCHANGED <<req, item, clock>>

----------------------------------------------------------------------------
\* GET and POST /api/products (products)

\* lines 138-147 and, for GET, 161-163
products_begin(t, r) ==
    /\ Idle(t)
    /\ item' = [item EXCEPT ![t] = 1]
    /\ req' = [req EXCEPT ![t] = IF require_pin(r) THEN r ELSE [r EXCEPT !.data = <<>>]]
    /\ IF ~require_pin(r)
       THEN Return(t, Json(403, "error", <<"PIN required">>))
       ELSE IF r.route = "products_get"
       THEN Return(t, Json(200, "rows", View(t).products))
       ELSE /\ pc' = [pc EXCEPT ![t] = "delete"]
            /\ resp' = [resp EXCEPT ![t] = NoResp]
    /\ UNCHANGED <<db, lock, conn, exc, clock>>

\* the connection had it been in autocommit mode: the DELETE is committed
\* at once
products_delete_autocommit(t) ==
    /\ pc[t] = "delete"
    /\ ~WriteBusy(t)
    /\ db' = [db EXCEPT !.products = <<>>]
    /\ conn' = [conn EXCEPT ![t] =
                  [open |-> TRUE, store |-> [View(t) EXCEPT !.products = <<>>]]]
    /\ lock' = t
    /\ pc' = [pc EXCEPT ![t] = IF req[t].data = <<>> THEN "commit_products" ELSE "insert_product"]
    /\ UNCHANGED <<req, resp, item, exc, clock>>

\* line 149: "DELETE FROM products" opens the transaction
products_delete(t) ==
    /\ pc[t] = "delete"
    /\ ~WriteBusy(t)
    /\ conn' = [conn EXCEPT ![t] =
                  [open |-> TRUE, store |-> [View(t) EXCEPT !.products = <<>>]]]
    /\ lock' = t
    /\ pc' = [pc EXCEPT ![t] = IF req[t].data = <<>> THEN "commit_products" ELSE "insert_product"]
    /\ UNCHANGED <<db, req, resp, item, exc, clock>>

\* line 149 when another connection keeps the write lock past the timeout
products_busy(t) ==
    /\ pc[t] = "delete"
    /\ WriteBusy(t)
    /\ exc' = [exc EXCEPT ![t] = <<"database is locked">>]
    /\ pc' = [pc EXCEPT ![t] = "unhandled"]
    /\ UNCHANGED <<db, lock, conn, req, resp, item, clock>>

\* lines 150-154: one turn of the insert loop; name is the primary key
products_insert(t) ==
    /\ pc[t] = "insert_product"
    /\ LET p == req[t].data[item[t]]
       IN  IF ProductRows(View(t), p.name) # <<>>
           THEN /\ exc' = [exc EXCEPT ![t] = <<"UNIQUE constraint failed: products.name">>]
                /\ pc' = [pc EXCEPT ![t] = "unhandled"]
                /\ UNCHANGED <<conn, item>>
           ELSE /\ conn' = [conn EXCEPT ![t].store.products = Append(@, p)]
                /\ IF item[t] < Len(req[t].data)
                   THEN /\ item' = [item EXCEPT ![t] = @ + 1]
                        /\ UNCHANGED pc
                   ELSE /\ item' = [item EXCEPT ![t] = 1]
                        /\ pc' = [pc EXCEPT ![t] = "commit_products"]
                /\ UNCHANGED exc
    /\ UNCHANGED <<db, lock, req, resp, clock>>

\* lines 155-159
products_commit(t) ==
    /\ pc[t] = "commit_products"
    /\ Commit(t)
    /\ Return(t, Json(200, "ok", <<>>))
    /\ UNCHANGED <<req, item, exc, clock>>

\* an exception leaves products() unhandled: Flask answers 500 and the
\* connection, never committed, is closed when the handler's frame is dropped
products_unhandled(t) ==
    /\ pc[t] = "unhandled"
    /\ Rollback(t)
    /\ Return(t, Json(500, "error", exc[t]))
    /\ exc' = [exc EXCEPT ![t] = <<>>]
    /\ UNCHANGED <<req, item, clock>>

----------------------------------------------------------------------------
\* GET /api/sales/daily and /api/sales/monthly

\* SQLite's BINARY collation on the characters a date holds
CharCode(c) == CASE c = "-" -> 45 [] c = "0" -> 48 [] c = "1" -> 49 [] c = "2" -> 50
                 [] c = "3" -> 51 [] c = "4" -> 52 [] c = "5" -> 53 [] c = "6" -> 54
                 [] c = "7" -> 55 [] c = "8" -> 56 [] c = "9" -> 57
TextLess(a, b) ==
    \/ \E k \in 1..Len(a) :
          /\ k <= Len(b)
          /\ \A j \in 1..(k - 1) : a[j] = b[j]
          /\ CharCode(a[k]) < CharCode(b[k])
    \/ Len(a) < Len(b) /\ \A j \in 1..Len(a) : a[j] = b[j]

\* substr(date, 1, n)
Substr(text, n) == SubSeq(text, 1, IF Len(text) < n THEN Len(text) ELSE n)

\* SUM(total) over the rows whose date starts with key, n its length
RECURSIVE SumTotal(_, _, _)
SumTotal(rows, key, n) ==
    IF rows = <<>> THEN 0
    ELSE (IF Substr(Head(rows).date, n) = key THEN Head(rows).total ELSE 0)
            + SumTotal(Tail(rows), key, n)

\* the ORDER BY had it been ascending
RECURSIVE OrderAsc(_)
OrderAsc(keys) ==
    IF keys = {} THEN <<>>
    ELSE LET low == CHOOSE k \in keys : \A o \in keys \ {k} : TextLess(k, o)
         IN  <<low>> \o OrderAsc(keys \ {low})

\* ORDER BY ... DESC over a set of keys
RECURSIVE OrderDesc(_)
OrderDesc(keys) ==
    IF keys = {} THEN <<>>
    ELSE LET top == CHOOSE k \in keys : \A o \in keys \ {k} : TextLess(o, k)
         IN  <<top>> \o OrderDesc(keys \ {top})

\* SELECT substr(date,1,n) key, SUM(total) total FROM sales GROUP BY key ORDER BY key DESC
GroupTotals(s, n) ==
    LET keys  == {Substr(s.sales[k].date, n) : k \in 1..Len(s.sales)}
        order == OrderDesc(keys)
    IN  [k \in 1..Len(order) |-> [key |-> order[k], total |-> SumTotal(s.sales, order[k], n)]]

\* lines 259-266
daily_sales(t) ==
    /\ Idle(t)
    /\ req' = [req EXCEPT ![t] = [route |-> "daily", pin |-> "", data |-> <<>>]]
    /\ Return(t, Json(200, "rows", GroupTotals(View(t), 10)))
    /\ UNCHANGED <<db, lock, conn, item, exc, clock>>

\* lines 269-276
monthly_sales(t) ==
    /\ Idle(t)
    /\ req' = [req EXCEPT ![t] = [route |-> "monthly", pin |-> "", data |-> <<>>]]
    /\ Return(t, Json(200, "rows", GroupTotals(View(t), 7)))
    /\ UNCHANGED <<db, lock, conn, item, exc, clock>>

----------------------------------------------------------------------------
\* GET /api/sales/monthly.csv (monthly_csv)

\* str(n) of an integer, as the f-string formats it
RECURSIVE Decimal(_)
Decimal(n) ==
    IF n < 0 THEN <<"-">> \o Decimal(0 - n)
    ELSE IF n < 10 THEN <<Digit(n)>>
    ELSE Decimal(n \div 10) \o <<Digit(n % 10)>>

\* line 294
CsvHeader == <<"m", "o", "n", "t", "h", ",", "t", "o", "t", "a", "l", "\n">>

\* lines 294-296: the header and one line "month,total" per row
RECURSIVE CsvText(_)
CsvText(rows) ==
    IF rows = <<>> THEN CsvHeader
    ELSE CsvText(SubSeq(rows, 1, Len(rows) - 1))
            \o rows[Len(rows)].key \o <<",">> \o Decimal(rows[Len(rows)].total) \o <<"\n">>

\* the orders in which a query without ORDER BY may return its groups
Orderings(keys) ==
    {o \in [1..Cardinality(keys) -> keys] : \A j, k \in DOMAIN o : j # k => o[j] # o[k]}

\* lines 288-291: SELECT substr(date,1,7) month, SUM(total) total FROM sales
\* GROUP BY month, which leaves the order of the groups to the query plan
GroupTotalsAnyOrder(s, n) ==
    LET keys == {Substr(s.sales[k].date, n) : k \in 1..Len(s.sales)}
    IN  {[k \in 1..Len(o) |-> [key |-> o[k], total |-> SumTotal(s.sales, o[k], n)]] :
            o \in Orderings(keys)}

\* lines 286-302: the text is written to monthly.csv and that file is sent
monthly_csv(t) ==
    /\ Idle(t)
    /\ req' = [req EXCEPT ![t] = [route |-> "monthly_csv", pin |-> "", data |-> <<>>]]
    /\ \E rows \in GroupTotalsAnyOrder(View(t), 7) :
          Return(t, Json(200, "file", CsvText(rows)))
    /\ UNCHANGED <<db, lock, conn, item, exc, clock>>

----------------------------------------------------------------------------
\* Process start (lines 109-113) on the existing store, and the clock

startup ==
    /\ lock = NoThread
    /\ db' = migrate_db(init_db(db))
    /\ UNCHANGED <<lock, conn, pc, req, resp, item, exc, clock>>

Tick ==
    /\ clock < MaxDay
    /\ clock' = clock + 1
    /\ UNCHANGED <<db, lock, conn, pc, req, resp, item, exc>>

----------------------------------------------------------------------------
\* The store as the first start of the application creates it
Init ==
    /\ db = migrate_db(init_db(EmptyStore))
    /\ lock = NoThread
    /\ conn = [t \in Threads |-> NoTx]
    /\ pc = [t \in Threads |-> "idle"]
    /\ req = [t \in Threads |-> NoReq]
    /\ resp = [t \in Threads |-> NoResp]
    /\ item = [t \in Threads |-> 1]
    /\ exc = [t \in Threads |-> <<>>]
    /\ clock = 0

\* the response is sent and the thread is free for the next request
finish(t) ==
    /\ pc[t] = "done"
    /\ pc' = [pc EXCEPT ![t] = "idle"]
    /\ req' = [req EXCEPT ![t] = NoReq]
    /\ resp' = [resp EXCEPT ![t] = NoResp]
    /\ UNCHANGED <<db, lock, conn, item, exc, clock>>

\* the statements of thread t's handlers that take no request payload
Step(t) ==
    \/ save_sale_duplicate_check(t)
    \/ save_sale_check_stock(t)
    \/ save_sale_apply_stock(t)
    \/ save_sale_insert(t)
    \/ save_sale_commit(t)
    \/ save_sale_except(t)
    \/ products_delete(t)
    \/ products_insert(t)
    \/ products_commit(t)
    \/ products_unhandled(t)
    \/ daily_sales(t)
    \/ monthly_sales(t)
    \/ finish(t)

\* a write that gives up waiting for another connection's lock
Busy(t) ==
    \/ save_sale_busy(t)
    \/ products_busy(t)

\* the requests that race: authorised, with at most one line item or product
RaceSaleRequests ==
    {r \in SaleRequests(1) : r.pin = APP_PIN /\ r.data.sale_id # None /\ r.data.total >= 0}
RaceProductRequests ==
    {r \in ProductRequests(1) : r.pin = APP_PIN}
SeqSaleRequests == SaleRequests(MaxItems)
SeqProductRequests == ProductRequests(MaxItems)

Next ==
    \/ \E t \in Threads : Step(t)
    \/ \E t \in Threads : Busy(t)
    \/ \E t \in Threads : \E r \in RaceSaleRequests : save_sale_begin(t, r)
    \/ \E t \in Threads : \E r \in RaceProductRequests : products_begin(t, r)
    \/ startup

\* any interleaving of two request threads, within one server day
Spec == Init /\ [][Next]_vars

MainThread == "t1"

SeqNext ==
    \/ Step(MainThread)
    \/ \E r \in SeqSaleRequests : save_sale_begin(MainThread, r)
    \/ \E r \in SeqProductRequests : products_begin(MainThread, r)
    \/ startup
    \/ Tick

\* one request at a time
SeqSpec == Init /\ [][SeqNext]_vars

----------------------------------------------------------------------------
\* The reports over a ledger of any content

\* longest ledger the reports are run on
MaxSales == 3

LedgerTotals == {15, 30}
\* the days the server clock has shown when a sale was recorded; the clock is
\* the host's, and the ledger need not be in the order of its dates
LedgerDates == {Strftime(d) : d \in 0..(MaxDay + 1)}
LedgerSaleIds == <<"s1", "s2", "s3", "s4", "s5">>
\* the ledgers sales requests can have written: rows with distinct sale_ids
Ledgers ==
    UNION {{[j \in 1..k |-> [sale_id |-> LedgerSaleIds[j], date |-> f[j].date,
                              total |-> f[j].total]] :
               f \in [1..k -> [date : LedgerDates, total : LedgerTotals]]} :
           k \in 0..MaxSales}

ReadInit ==
    /\ db \in {[migrate_db(init_db(EmptyStore)) EXCEPT !.sales = l] : l \in Ledgers}
    /\ lock = NoThread
    /\ conn = [t \in Threads |-> NoTx]
    /\ pc = [t \in Threads |-> "idle"]
    /\ req = [t \in Threads |-> NoReq]
    /\ resp = [t \in Threads |-> NoResp]
    /\ item = [t \in Threads |-> 1]
    /\ exc = [t \in Threads |-> <<>>]
    /\ clock = 0

ReadNext ==
    \/ daily_sales(MainThread)
    \/ monthly_sales(MainThread)
    \/ monthly_csv(MainThread)
    \/ finish(MainThread)

\* the reports, run on every ledger
ReadSpec == ReadInit /\ [][ReadNext]_vars

----------------------------------------------------------------------------
\* Process start on a store that an earlier run, or an earlier release, left

\* the marker values releases have written
StoredVersions == {"1", "2", "3"}

\* the sales rows of a release that had no sale_id column
LegacyLedgers ==
    {[j \in DOMAIN l |-> [l[j] EXCEPT !.sale_id = None]] : l \in Ledgers}

StoredProducts == {<<>>, <<[name |-> "bia", price |-> 10, qty |-> 1]>>}

\* stores of a release before schema version 2: sales(date, total), and a
\* meta table that is missing, empty, or holds the marker '1'
LegacyStores ==
    {[tables    |-> {"products", "sales"} \cup mt,
      meta      |-> m,
      salesCols |-> {"date", "total"},
      salesKey  |-> {},
      products  |-> p,
      sales     |-> l] :
        mt \in {{}, {"meta"}},
        m \in {[k \in {} |-> ""], [k \in {"schema_version"} |-> "1"]},
        p \in StoredProducts, l \in LegacyLedgers}

\* stores that init_db created, stamped by this release or a later one
CurrentStores ==
    {[init_db(EmptyStore) EXCEPT
        !.meta = [k \in {"schema_version"} |-> v], !.products = p, !.sales = l] :
        v \in StoredVersions \ {"1"}, p \in StoredProducts, l \in Ledgers}

PreexistingStores ==
    {EmptyStore}
        \cup {s \in LegacyStores : DOMAIN s.meta # {} => "meta" \in s.tables}
        \cup CurrentStores

StartInit ==
    /\ db \in PreexistingStores
    /\ lock = NoThread
    /\ conn = [t \in Threads |-> NoTx]
    /\ pc = [t \in Threads |-> "idle"]
    /\ req = [t \in Threads |-> NoReq]
    /\ resp = [t \in Threads |-> NoResp]
    /\ item = [t \in Threads |-> 1]
    /\ exc = [t \in Threads |-> <<>>]
    /\ clock = 0

\* one run of init_db (lines 36-69)
init_db_run ==
    /\ lock = NoThread
    /\ db' = init_db(db)
    /\ UNCHANGED <<lock, conn, pc, req, resp, item, exc, clock>>

\* one run of migrate_db (lines 75-106)
migrate_db_run ==
    /\ lock = NoThread
    /\ db' = migrate_db(db)
    /\ UNCHANGED <<lock, conn, pc, req, resp, item, exc, clock>>

StartNext ==
    \/ startup
    \/ init_db_run
    \/ migrate_db_run

\* any number of runs of init_db, migrate_db and the whole start sequence
StartSpec == StartInit /\ [][StartNext]_vars

----------------------------------------------------------------------------
\* A product replace racing with a catalogue read or a sale

\* a thread that replaces the product list, of up to MaxItems products, and
\* a thread that meanwhile reads the catalogue or submits a sale
Replacer == "t1"
Observer == "t2"
ReplaceProductRequests ==
    {r \in ProductRequests(MaxItems) : r.pin = APP_PIN /\ r.route = "products_post"}
CatalogueReads ==
    {r \in ProductRequests(0) : r.pin = APP_PIN /\ r.route = "products_get"}
ObserverSaleRequests ==
    {r \in SaleRequests(1) : r.pin = APP_PIN /\ r.data.sale_id = "s1"
                                /\ r.data.total > 0 /\ r.data.items # <<>>}

ReplaceNext ==
    \/ \E r \in ReplaceProductRequests : products_begin(Replacer, r)
    \/ products_delete(Replacer)
    \/ products_busy(Replacer)
    \/ products_insert(Replacer)
    \/ products_commit(Replacer)
    \/ products_unhandled(Replacer)
    \/ \E r \in CatalogueReads : products_begin(Observer, r)
    \/ \E r \in ObserverSaleRequests : save_sale_begin(Observer, r)
    \/ save_sale_duplicate_check(Observer)
    \/ save_sale_check_stock(Observer)
    \/ save_sale_apply_stock(Observer)
    \/ save_sale_busy(Observer)
    \/ save_sale_insert(Observer)
    \/ save_sale_commit(Observer)
    \/ save_sale_except(Observer)
    \/ \E t \in Threads : finish(t)

\* one replace at a time, and one reader or buyer beside it
ReplaceSpec == Init /\ [][ReplaceNext]_vars

----------------------------------------------------------------------------
\* Sale requests whose line items carry any integer quantity

\* data.get("items") is taken as it comes: item["qty"] may be zero or negative
SignedItemLists(n) ==
    UNION {[1..k -> [name : Names, qty : (0 - 1)..MaxQty]] : k \in 0..n}
SignedSaleRequests ==
    {[route |-> "sales", pin |-> APP_PIN,
      data |-> [sale_id |-> s, total |-> tot, items |-> its]] :
        s \in SaleIds, tot \in PositiveTotals, its \in SignedItemLists(MaxItems)}
StockingRequests ==
    {r \in ProductRequests(1) : r.pin = APP_PIN /\ r.route = "products_post"}

SignedNext ==
    \/ \E r \in SignedSaleRequests : save_sale_begin(MainThread, r)
    \/ save_sale_duplicate_check(MainThread)
    \/ save_sale_check_stock(MainThread)
    \/ save_sale_apply_stock(MainThread)
    \/ save_sale_insert(MainThread)
    \/ save_sale_commit(MainThread)
    \/ save_sale_except(MainThread)
    \/ \E r \in StockingRequests : products_begin(MainThread, r)
    \/ products_delete(MainThread)
    \/ products_insert(MainThread)
    \/ products_commit(MainThread)
    \/ finish(MainThread)

\* one request at a time, sale requests with quantities of either sign
SignedSpec == Init /\ [][SignedNext]_vars

----------------------------------------------------------------------------
\* Vocabulary of the properties

\* thread t has answered a sale request that passed the PIN check
SaleDone(t) == pc[t] = "done" /\ req[t].route = "sales" /\ require_pin(req[t])
Saved(t) == SaleDone(t) /\ resp[t].body = "saved"

\* this step is the one in which thread t's handler returns
Returns(t) == pc[t] # "done" /\ pc'[t] = "done"
\* ... and the request answered is an authorised sale request
ReturnsSale(t) == Returns(t) /\ req'[t].route = "sales" /\ require_pin(req'[t])

\* every committed stock is non-negative
StockNonNegative == \A k \in 1..Len(db.products) : db.products[k].qty >= 0

\* the quantity an item list asks of product name
RECURSIVE Requested(_, _)
Requested(items, name) ==
    IF items = <<>> THEN 0
    ELSE (IF Head(items).name = name THEN Head(items).qty ELSE 0)
            + Requested(Tail(items), name)

\* number of sales rows with this sale_id
Records(s, sale_id) == Cardinality({k \in 1..Len(s.sales) : s.sales[k].sale_id = sale_id})

\* the payload carries a sale_id, a positive total and at least one item
HasSaleId(data) == data.sale_id \in SaleIds
Accepted(data) == HasSaleId(data) /\ data.total > 0 /\ data.items # <<>>

\* line item it fails validation against store s: no such product, or the
\* product holds less than the item asks for
ItemFails(s, it) ==
    \A k \in 1..Len(s.products) :
        s.products[k].name = it.name => s.products[k].qty < it.qty
SomeItemFails(s, items) == \E k \in 1..Len(items) : ItemFails(s, items[k])

\* products p1 is products p0 with every row's qty lowered by what items ask of it
Deducted(p0, p1, items) ==
    /\ Len(p1) = Len(p0)
    /\ \A k \in 1..Len(p0) :
          p1[k] = [p0[k] EXCEPT !.qty = @ - Requested(items, p0[k].name)]

\* sales s1 is sales s0 with one row appended
Appended(s0, s1) == Len(s1) = Len(s0) + 1 /\ SubSeq(s1, 1, Len(s0)) = s0

----------------------------------------------------------------------------
\* C1: two concurrent sale requests with different sale_ids that deduct from
\* the same product never both return saved with the product's committed qty
\* driven below zero (the later one is to fail with "Not enough stock").
\* The code checks stock in SELECTs outside the transaction that deducts, so
\* both pass the check on the same stock and both deduct: TLC finds a run.
C1_NoOversell ==
    \A a, b \in Threads :
        (/\ a # b
         /\ Saved(a) /\ Saved(b)
         /\ req[a].data.sale_id # req[b].data.sale_id
         /\ \E n \in Names : Requested(req[a].data.items, n) > 0
                          /\ Requested(req[b].data.items, n) > 0)
        => StockNonNegative

\* C2: in a sequence of sale requests handled one at a time, every product's
\* committed qty stays >= 0.  The code checks every line item against the
\* stored qty on its own, so a list naming one product twice passes the check
\* item by item and deducts the sum: TLC finds a run.
C2_NonNegativeStock == StockNonNegative

----------------------------------------------------------------------------
\* C3, as claimed: once a sale_id has been submitted and recorded, a further
\* submission of it returns duplicate whatever its payload, and leaves one
\* record and one round of deduction.  A resubmission with total <= 0 or no
\* items is answered ignored before the ledger is looked at: TLC finds a run.
C3_AnyPayloadDuplicate ==
    [][\A t \in Threads :
        (/\ ReturnsSale(t)
         /\ HasSaleId(req'[t].data)
         /\ Records(db, req'[t].data.sale_id) > 0)
        => /\ resp'[t].body = "duplicate"
           /\ db' = db
           /\ Records(db', req'[t].data.sale_id) = 1]_vars

\* C3, amended: a further submission of a recorded sale_id leaves the store
\* as it is, with exactly one record of that sale_id, and returns duplicate
\* when its total is positive and it has items, ignored otherwise.
C3_Idempotent ==
    [][\A t \in Threads :
        (/\ ReturnsSale(t)
         /\ HasSaleId(req'[t].data)
         /\ Records(db, req'[t].data.sale_id) > 0)
        => /\ db' = db
           /\ Records(db', req'[t].data.sale_id) = 1
           /\ resp'[t] = IF req'[t].data.total > 0 /\ req'[t].data.items # <<>>
                         THEN Json(200, "duplicate", <<>>)
                         ELSE Json(200, "ignored", <<>>)]_vars

\* a resubmission that would have deducted stock again was answered duplicate
C3_Witness ==
    \E t \in Threads :
        /\ SaleDone(t) /\ resp[t].body = "duplicate"
        /\ Records(db, req[t].data.sale_id) = 1
        /\ ~SomeItemFails(db, req[t].data.items)

\* C4: of concurrent sale requests with one sale_id at most one deducts stock
\* and at most one record is committed: every change of the committed store
\* by a sale request is the commit of a saved sale whose sale_id was not
\* recorded, adds its one record and deducts its items once; a request that
\* ends otherwise (the loser of the insert race) leaves the store unchanged.
C4_SingleDeduction ==
    [][\A t \in Threads :
        ReturnsSale(t) =>
            IF resp'[t].body = "saved"
            THEN /\ Records(db, req[t].data.sale_id) = 0
                 /\ Records(db', req[t].data.sale_id) = 1
                 /\ Appended(db.sales, db'.sales)
                 /\ Deducted(db.products, db'.products, req[t].data.items)
            ELSE db' = db]_vars

\* two requests with one sale_id raced past the duplicate check: one is
\* saved, the other lost the insert and its deduction is gone
C4_Witness ==
    \E a, b \in Threads :
        /\ a # b /\ Saved(a) /\ SaleDone(b)
        /\ req[a].data.sale_id = req[b].data.sale_id
        /\ resp[b] = Json(400, "error", <<"UNIQUE constraint failed: sales.sale_id">>)
        /\ Records(db, req[a].data.sale_id) = 1
        /\ \A k \in 1..Len(db.products) : db.products[k].qty >= 0

\* C5: a sale request one of whose line items fails validation (unknown
\* product, or more than the stock) is not saved, and the committed store
\* after it is the store before it; the committed store changes only in the
\* step that returns saved (or ok, for a product replace).
C5_Atomic ==
    [][/\ \A t \in Threads :
            (/\ ReturnsSale(t)
             /\ Accepted(req'[t].data)
             /\ SomeItemFails(db, req'[t].data.items))
            => resp'[t].body # "saved" /\ db' = db
       /\ db' # db => \E t \in Threads : Returns(t) /\ resp'[t].body \in {"saved", "ok"}
      ]_vars

\* the second item of a request failed after the first had passed; nothing
\* of the request is in the store
C5_Witness ==
    \E t \in Threads :
        /\ SaleDone(t) /\ Accepted(req[t].data)
        /\ Len(req[t].data.items) = 2
        /\ ~ItemFails(db, req[t].data.items[1])
        /\ ItemFails(db, req[t].data.items[2])
        /\ resp[t].status = 400 /\ resp[t].body = "error"
        /\ Records(db, req[t].data.sale_id) = 0

\* C6: a sale request with a new sale_id, a positive total and items that
\* each name a product holding at least the item's qty returns saved, lowers
\* each named product by what the items ask of it, leaves the other products
\* alone, and appends one record with the sale_id, the total and the server
\* day on which the INSERT ran.
C6_SavedEffect ==
    [][\A t \in Threads :
        /\ (/\ ReturnsSale(t)
            /\ Accepted(req'[t].data)
            /\ Records(db, req'[t].data.sale_id) = 0
            /\ ~SomeItemFails(db, req'[t].data.items))
           => /\ resp'[t] = Json(200, "saved", <<>>)
              /\ Deducted(db.products, db'.products, req[t].data.items)
              /\ Appended(db.sales, db'.sales)
              /\ db'.sales[Len(db'.sales)].sale_id = req[t].data.sale_id
              /\ db'.sales[Len(db'.sales)].total = req[t].data.total
              /\ db'.sales[Len(db'.sales)] = conn[t].store.sales[Len(conn[t].store.sales)]
        /\ (pc[t] = "insert" /\ pc'[t] = "commit")
           => conn'[t].store.sales[Len(conn'[t].store.sales)].date = Strftime(clock)
      ]_vars

\* a sale of one product out of two was saved on the second day
C6_Witness ==
    \E t \in Threads :
        /\ Saved(t)
        /\ Len(db.products) = 2
        /\ Len(req[t].data.items) = 1
        /\ \E k \in 1..Len(db.sales) :
              db.sales[k] = [sale_id |-> req[t].data.sale_id,
                             date |-> <<"2", "0", "2", "4", "-", "0", "5", "-", "3", "1">>,
                             total |-> req[t].data.total]

\* C7: the committed ledger never holds two records with one sale_id, nor a
\* record with a total <= 0 or without a sale_id.
C7_LedgerKeys ==
    \A j, k \in 1..Len(db.sales) :
        /\ j # k => db.sales[j].sale_id # db.sales[k].sale_id
        /\ db.sales[k].total > 0
        /\ db.sales[k].sale_id \notin {None, ""}

\* two records are in the ledger and a resubmission was turned away
C7_Witness ==
    /\ Len(db.sales) = 2
    /\ \E t \in Threads : SaleDone(t) /\ resp[t].body = "duplicate"

\* C8: the ledger is append-only: every committed record stays where it is,
\* unchanged, in every step of any handler and of startup.
C8_AppendOnly ==
    [][\A k \in 1..Len(db.sales) :
          k <= Len(db'.sales) /\ db'.sales[k] = db.sales[k]]_vars

\* a product replace was committed over a ledger that holds a record
C8_Witness ==
    /\ Len(db.sales) >= 1
    /\ \E t \in Threads :
          /\ pc[t] = "done" /\ req[t].route = "products_post"
          /\ resp[t].body = "ok" /\ db.products = req[t].data

\* C9: a sale request with a sale_id and a total <= 0 or no items is answered
\* ignored and leaves the store as it is; its sale_id is not used up:
\* duplicate is answered only for a sale_id that has a record.
C9_Ignored ==
    [][\A t \in Threads :
        /\ (/\ ReturnsSale(t)
            /\ HasSaleId(req'[t].data)
            /\ (req'[t].data.total <= 0 \/ req'[t].data.items = <<>>))
           => resp'[t] = Json(200, "ignored", <<>>) /\ db' = db
        /\ (ReturnsSale(t) /\ resp'[t].body = "duplicate")
           => Records(db, req'[t].data.sale_id) > 0
      ]_vars

\* a request with items in stock but no positive total was ignored and its
\* sale_id has no record
C9_Witness ==
    \E t \in Threads :
        /\ SaleDone(t) /\ HasSaleId(req[t].data)
        /\ req[t].data.total <= 0 /\ req[t].data.items # <<>>
        /\ ~SomeItemFails(db, req[t].data.items)
        /\ resp[t] = Json(200, "ignored", <<>>)
        /\ Records(db, req[t].data.sale_id) = 0

\* C10: a sale request without a sale_id (absent or empty) is answered 400
\* "sale_id required" and leaves the store as it is, whatever its total and
\* items.
C10_SaleIdRequired ==
    [][\A t \in Threads :
        (ReturnsSale(t) /\ req'[t].data.sale_id \in {None, ""})
        => resp'[t] = Json(400, "error", <<"sale_id required">>) /\ db' = db]_vars

\* a request that lacked nothing but the sale_id was rejected; so was one
\* that would otherwise have been ignored
C10_Witness ==
    \E t \in Threads :
        /\ SaleDone(t) /\ req[t].data.sale_id = ""
        /\ req[t].data.total > 0 /\ req[t].data.items # <<>>
        /\ ~SomeItemFails(db, req[t].data.items)
        /\ resp[t] = Json(400, "error", <<"sale_id required">>)

----------------------------------------------------------------------------
\* the outcomes of a sale request that name a business result
BusinessOutcomes ==
    {Json(200, "saved", <<>>), Json(200, "duplicate", <<>>), Json(200, "ignored", <<>>),
     Json(400, "error", <<"sale_id required">>)}
        \cup {Json(400, "error", <<"Product not found: ", n>>) : n \in Names}
        \cup {Json(400, "error", <<"Not enough stock for ", n>>) : n \in Names}

\* a write that timed out waiting for the lock: the store was not available
StoreUnavailable == Json(400, "error", <<"database is locked">>)

\* C11: whatever the interleaving of sale requests, with the store available
\* every outcome is saved, duplicate, ignored or an error naming a business
\* failure (sale_id required, product not found, not enough stock); a request
\* whose sale_id another request has recorded meanwhile is answered duplicate,
\* and no error carries a raw storage failure.  Of two requests with one
\* sale_id that both pass the duplicate check, the second to INSERT is
\* answered 400 with the text of the IntegrityError: TLC finds a run.
C11_BusinessOutcomes ==
    \A t \in Threads :
        SaleDone(t) => resp[t] \in BusinessOutcomes \cup {StoreUnavailable}

----------------------------------------------------------------------------
\* text starts with key
HasPrefix(text, key) == Len(key) <= Len(text) /\ \A j \in 1..Len(key) : text[j] = key[j]

\* the sum of total over the ledger rows at the indices idx
RECURSIVE TotalOver(_, _)
TotalOver(sales, idx) ==
    IF idx = {} THEN 0
    ELSE LET k == CHOOSE j \in idx : TRUE
         IN  sales[k].total + TotalOver(sales, idx \ {k})

\* the sum of total over the rows of a report
RECURSIVE ReportTotal(_)
ReportTotal(rows) ==
    IF rows = <<>> THEN 0 ELSE Head(rows).total + ReportTotal(Tail(rows))

\* a date or month as a number: 2024-05-30 is 20240530, 2024-05 is 202405
RECURSIVE KeyNumber(_)
KeyNumber(key) ==
    IF key = <<>> THEN 0
    ELSE LET c == key[Len(key)]
             rest == KeyNumber(SubSeq(key, 1, Len(key) - 1))
         IN  IF c = "-" THEN rest ELSE 10 * rest + (CHOOSE d \in 0..9 : Digit(d) = c)

\* rows is the report of ledger sales by the first n characters of the date:
\* one row per group, holding the group's sum, in descending order of the key
IsReport(rows, sales, n) ==
    /\ \A j \in 1..Len(sales) :
          Cardinality({k \in 1..Len(rows) :
                          Len(rows[k].key) = n /\ HasPrefix(sales[j].date, rows[k].key)}) = 1
    /\ \A k \in 1..Len(rows) :
          LET group == {j \in 1..Len(sales) : HasPrefix(sales[j].date, rows[k].key)}
          IN  /\ Len(rows[k].key) = n
              /\ group # {}
              /\ rows[k].total = TotalOver(sales, group)
    /\ \A k \in 1..(Len(rows) - 1) : KeyNumber(rows[k].key) > KeyNumber(rows[k + 1].key)
    /\ ReportTotal(rows) = TotalOver(sales, 1..Len(sales))

\* C12: for every ledger, daily_sales returns one row per distinct date with
\* the sum of the totals of the records of that date, monthly_sales one row
\* per distinct YYYY-MM prefix with the sum of the records of that month, both
\* in descending order of the key, and the totals of either report add up to
\* the sum of all records' totals.
C12_Aggregation ==
    [][\A t \in Threads :
        /\ (Returns(t) /\ req'[t].route = "daily")
           => IsReport(resp'[t].detail, db.sales, 10)
        /\ (Returns(t) /\ req'[t].route = "monthly")
           => IsReport(resp'[t].detail, db.sales, 7)]_vars

\* the monthly report of a ledger of three records, two in one month and of
\* different days, has two rows
C12_Witness ==
    \E t \in Threads :
        /\ pc[t] = "done" /\ req[t].route = "monthly"
        /\ Len(db.sales) = 3
        /\ Len(resp[t].detail) = 2
        /\ Len(GroupTotals(db, 10)) = 3

----------------------------------------------------------------------------
\* C13: for every ledger, the monthly CSV export is the header line
\* month,total followed by one line per month, with the months and totals of
\* monthly_sales in the order monthly_sales returns them (descending).  The
\* export's query has no ORDER BY: over a ledger of two months the lines may
\* come in ascending order: TLC finds a run.
C13_CsvAsMonthly ==
    [][\A t \in Threads :
        (Returns(t) /\ req'[t].route = "monthly_csv")
        => resp'[t].detail = CsvText(GroupTotals(db, 7))]_vars

----------------------------------------------------------------------------
\* the stored schema_version as a number, 0 where no marker is stored
VersionOf(s) ==
    IF "schema_version" \in DOMAIN s.meta
    THEN CHOOSE n \in 0..9 : Digit(n) = s.meta["schema_version"]
    ELSE 0

\* C14: a second run of migrate_db right after a first leaves the store (meta,
\* the structure of sales, the sales and product rows) as the first left it;
\* a run of migrate_db on a store at schema_version 2 changes nothing; and no
\* run of init_db or migrate_db lowers the stored schema_version or removes
\* the marker.
C14_MigrateIdempotent ==
    [][/\ migrate_db(migrate_db(db)) = migrate_db(db)
       /\ migrate_db(migrate_db(db')) = migrate_db(db')
       /\ (VersionOf(db) >= 2 /\ db' = migrate_db(db)) => db' = db
       /\ VersionOf(db') >= VersionOf(db)]_vars

\* a store of a release before version 2, with its rows, has been migrated:
\* sales has the new column (and no key), the rows are there, the marker is 2
C14_Witness ==
    /\ VersionOf(db) = 2
    /\ db.salesCols = {"date", "total", "sale_id"}
    /\ db.salesKey = {}
    /\ Len(db.sales) = 2 /\ Len(db.products) = 1

\* C15: the start sequence, init_db then migrate_db, on a store whose stored
\* schema version is below 2 (a store without a marker included) leaves sales
\* with the sale_id column and the marker at 2.  On a store without a marker
\* init_db stores the marker '2' (INSERT OR IGNORE) before migrate_db reads
\* it, and migrate_db then adds no column: TLC finds a run.
C15_StartupMigrates ==
    [][(VersionOf(db) < 2 /\ db' = migrate_db(init_db(db)))
        => "sale_id" \in db'.salesCols /\ VersionOf(db') = 2]_vars

----------------------------------------------------------------------------
\* the line item thread t's stock check loop is at
CurrentItem(t) == req[t].data.items[item[t]]

\* this step commits a product replace of thread t
ReplaceCommits(t) ==
    Returns(t) /\ req[t].route = "products_post" /\ resp'[t] = Json(200, "ok", <<>>)

\* C16: a product replace is atomic.  The committed product set changes only
\* in the step that commits a replace, to the whole new list, or in the commit
\* of a saved sale; a catalogue read returns the committed set and a sale's
\* stock check and first UPDATE work on it, so neither meets the emptied or
\* partly refilled set of a replace in progress; a replace that fails
\* part-way (a name repeated in the new list) leaves the store as it was.
C16_AtomicReplace ==
    [][/\ db'.products # db.products
          => \/ ReplaceCommits(Replacer) /\ db'.products = req[Replacer].data
             \/ ReturnsSale(Observer) /\ resp'[Observer].body = "saved"
       /\ (Returns(Observer) /\ req'[Observer].route = "products_get")
          => resp'[Observer].detail = db.products
       /\ (pc[Observer] = "check_stock" /\ pc'[Observer] # "check_stock")
          => (pc'[Observer] = "except" <=> ItemFails(db, CurrentItem(Observer)))
       /\ (pc[Observer] = "apply_stock" /\ conn'[Observer].open)
          => Deducted(db.products, conn'[Observer].store.products,
                      <<CurrentItem(Observer)>>)
       /\ (Returns(Replacer) /\ resp'[Replacer].status # 200)
          => db' = db
      ]_vars

\* the catalogue was read as the committed list of two products while a
\* replace had emptied the set and put in the first of its products
C16_Witness ==
    /\ pc[Replacer] = "insert_product" /\ item[Replacer] = 2
    /\ Len(conn[Replacer].store.products) = 1
    /\ Len(db.products) = 2
    /\ pc[Observer] = "done" /\ req[Observer].route = "products_get"
    /\ resp[Observer].detail = db.products

----------------------------------------------------------------------------
\* thread t has an open transaction that has deducted stock
HasDeducted(t) == conn[t].open /\ conn[t].store.products # db.products

\* C17: a read running while sale requests are in progress sees committed
\* states only.  The catalogue and the reports are computed from the
\* committed store, whatever another connection's open transaction holds; in
\* the committed store a sale's deduction and its record appear in one step,
\* the commit of a saved sale; and a sale request that ends in an error
\* leaves the committed store as it was at each of its steps.
C17_ReadCommitted ==
    [][\A t \in Threads :
        /\ (Returns(t) /\ req'[t].route = "products_get")
           => resp'[t].detail = db.products
        /\ (Returns(t) /\ req'[t].route = "daily")
           => IsReport(resp'[t].detail, db.sales, 10)
        /\ (Returns(t) /\ req'[t].route = "monthly")
           => IsReport(resp'[t].detail, db.sales, 7)
        /\ (req[t].route = "sales" /\ pc[t] # "idle" /\ db' # db /\ pc'[t] # pc[t])
           => /\ resp'[t] = Json(200, "saved", <<>>)
              /\ Appended(db.sales, db'.sales)
              /\ db'.sales[Len(db'.sales)].sale_id = req[t].data.sale_id
              /\ Deducted(db.products, db'.products, req[t].data.items)
        /\ (ReturnsSale(t) /\ resp'[t].body = "error") => db' = db
      ]_vars

\* the catalogue was read as committed while another request, which is about
\* to end in an error, had its deduction in an open transaction
C17_Witness ==
    \E t, u \in Threads :
        /\ pc[t] = "done" /\ req[t].route = "products_get"
        /\ resp[t].detail = db.products
        /\ pc[u] = "except" /\ HasDeducted(u)

\* this step commits a sale of thread t
SaleCommits(t) == ReturnsSale(t) /\ resp'[t] = Json(200, "saved", <<>>)

\* C18: no update is lost.  Every commit of a saved sale lowers each
\* product's committed qty by what the sale's line items ask of it, counted
\* from the qty committed just before, so that the deductions of all saved
\* sales add up; no other step of a sale request (failed, duplicate, ignored)
\* and no start changes a committed product, only a product replace does.
C18_NoLostUpdate ==
    [][IF \E t \in Threads : SaleCommits(t)
       THEN \A t \in Threads :
               SaleCommits(t) =>
                  /\ Len(db'.products) = Len(db.products)
                  /\ \A k \in 1..Len(db.products) :
                        /\ db'.products[k].name = db.products[k].name
                        /\ db'.products[k].qty =
                              db.products[k].qty
                                 - Requested(req[t].data.items, db.products[k].name)
       ELSE db'.products # db.products
               => \E t \in Threads : Returns(t) /\ req[t].route = "products_post"]_vars

\* a sale is committed and a second one, of the same product, which passed
\* its stock check before that commit, has deducted from the committed qty
C18_Witness ==
    \E a, b \in Threads :
        /\ a # b /\ Saved(a)
        /\ pc[b] = "commit" /\ lock = b
        /\ req[a].data.sale_id # req[b].data.sale_id
        /\ \E k \in 1..Len(db.products) :
              /\ Requested(req[a].data.items, db.products[k].name) > 0
              /\ Requested(req[b].data.items, db.products[k].name) > 0
              /\ db.products[k].qty = 0
              /\ conn[b].store.products[k].qty = 0 - Requested(req[b].data.items, db.products[k].name)

----------------------------------------------------------------------------
\* the first line item of items that fails validation against store s
FirstFailing(s, items) ==
    CHOOSE k \in 1..Len(items) :
        ItemFails(s, items[k]) /\ \A j \in 1..(k - 1) : ~ItemFails(s, items[j])

\* the error a failing line item is reported with
Cause(s, it) ==
    IF \A k \in 1..Len(s.products) : s.products[k].name # it.name
    THEN <<"Product not found: ", it.name>>
    ELSE <<"Not enough stock for ", it.name>>

\* C19: of the line items of a sale request that fail validation, the first
\* in the order supplied is the one reported, with its own cause (product
\* not found, or not enough stock); the check stops at that item, and nothing
\* of the request is applied.
C19_FirstFailure ==
    [][\A t \in Threads :
        (/\ ReturnsSale(t)
         /\ Accepted(req'[t].data)
         /\ Records(db, req'[t].data.sale_id) = 0
         /\ SomeItemFails(db, req'[t].data.items))
        => /\ resp'[t] = Json(400, "error",
                              Cause(db, req'[t].data.items[FirstFailing(db, req'[t].data.items)]))
           /\ item[t] = FirstFailing(db, req'[t].data.items)
           /\ ~conn[t].open
           /\ db' = db]_vars

\* both items of a request fail, the first for an unknown product and the
\* second for want of stock; the first is the one reported
C19_Witness ==
    \E t \in Threads :
        /\ SaleDone(t) /\ Accepted(req[t].data)
        /\ Len(req[t].data.items) = 2
        /\ ItemFails(db, req[t].data.items[1]) /\ ItemFails(db, req[t].data.items[2])
        /\ Cause(db, req[t].data.items[2]) = <<"Not enough stock for ", req[t].data.items[2].name>>
        /\ resp[t] = Json(400, "error", <<"Product not found: ", req[t].data.items[1].name>>)

----------------------------------------------------------------------------
\* C20: no sale request raises a product's stock: whatever integer
\* quantities its line items carry, zero and negative ones included, the
\* request either leaves the store as it is or leaves every product with a
\* qty at most the qty it had.  The stock check (row qty < item qty) lets a
\* negative quantity pass and the UPDATE subtracts it: TLC finds a run.
C20_NeverRaisesStock ==
    [][\A t \in Threads :
        ReturnsSale(t)
        => \/ db' = db
           \/ /\ Len(db'.products) = Len(db.products)
              /\ \A k \in 1..Len(db.products) :
                    db'.products[k].qty <= db.products[k].qty]_vars

====
